---------------------------- MODULE Spec2Model ----------------------------
(***************************************************************************)
(* A model of nmap_scanner.py: run_scan(host, options) builds a command    *)
(* line, launches the external nmap binary, waits for it, and turns its    *)
(* XML report into a dictionary (or into an {"error": ...} dictionary).    *)
(*                                                                         *)
(* Strings are sequences of one-character strings, byte strings are        *)
(* sequences of byte values, an XML document on the wire is a sequence of  *)
(* markup tokens, and a Python dict is a function from its keys.           *)
(***************************************************************************)
EXTENDS Integers, Sequences, FiniteSets, TLC

VARIABLES
    pc,          \* the position of the call inside run_scan
    host,        \* argument host
    options,     \* local options (rebound by line 22)
    env,         \* what the machine will do: the binary and the child's behaviour
    argv,        \* command.split(), the vector handed to Popen
    popenCalls,  \* how many times subprocess.Popen was called
    started,     \* how many child processes were actually created
    waited,      \* process.communicate() has returned
    parsed,      \* ET.fromstring was invoked
    stdout,      \* captured standard output (markup tokens)
    stderr,      \* captured standard error (bytes)
    returncode,  \* process.returncode
    root,        \* the Element returned by ET.fromstring
    exc,         \* the exception in flight, with the try block it was raised in
    result       \* the value returned to the caller

vars == << pc, host, options, env, argv, popenCalls, started, waited, parsed,
           stdout, stderr, returncode, root, exc, result >>

-----------------------------------------------------------------------------
(* Bounds of the model.                                                    *)

MaxPieces == 3      \* an options string is made of at most this many pieces
MaxHostLen == 2     \* characters of a host string
MaxErrLen == 2      \* bytes the child writes to standard error
MaxDocLen == 3      \* markup tokens of an arbitrary (mostly malformed) output
MaxRootChildren == 3 \* child elements of the report's root
MaxPorts == 2       \* port elements of a ports container

-----------------------------------------------------------------------------
(* Strings.                                                                *)

None == "None"              \* Python's None where a string was expected
NUL == "<NUL>"              \* the character U+0000
SURROGATE == "<U+D800>"     \* a lone surrogate, which no byte string encodes
SP == " "

RECURSIVE Concat(_)
Concat(ss) == IF ss = << >> THEN << >> ELSE Head(ss) \o Concat(Tail(ss))

SeqsUpTo(S, n) == UNION { [1..k -> S] : k \in 0..n }

\* sub in s, for Python strings
Contains(s, sub) ==
    \E i \in 0..(Len(s) - Len(sub)) :
        \A j \in 1..Len(sub) : s[i + j] = sub[j]

\* str.split() with no separator: maximal runs of non-whitespace characters
RECURSIVE SplitFrom(_, _, _)
SplitFrom(s, i, cur) ==
    IF i > Len(s)
    THEN IF cur = << >> THEN << >> ELSE << cur >>
    ELSE IF s[i] = SP
         THEN (IF cur = << >> THEN << >> ELSE << cur >>) \o SplitFrom(s, i + 1, << >>)
         ELSE SplitFrom(s, i + 1, Append(cur, s[i]))

Split(s) == SplitFrom(s, 1, << >>)

NMAP == << "n", "m", "a", "p" >>
OX == << "-", "o", "X" >>
DASH == << "-" >>
SV == << "-", "s", "V" >>
XmlFlag == OX \o << SP >> \o DASH      \* the literal "-oX -" of lines 21-22

\* lines 21-22: if "-oX -" not in options: options += " -oX -"
EnsureXmlOption(opts) ==
    IF ~Contains(opts, XmlFlag) THEN opts \o << SP >> \o XmlFlag ELSE opts

\* lines 24 and 26: f"nmap {options} {host}".split()
CommandLine(opts, h) == Split(NMAP \o << SP >> \o opts \o << SP >> \o h)

-----------------------------------------------------------------------------
(* Bytes and text: bytes.decode() of line 33, strict UTF-8.                *)

DecodeFailed == << "<UnicodeDecodeError>" >>

\* The character of an ASCII byte (0x51 is "Q").
Chr(b) == IF b = 81 THEN "Q" ELSE "?"

\* The decoded text, or DecodeFailed when the bytes are not valid UTF-8:
\* an ASCII byte is a character, a lead byte 0xC2..0xDF takes one
\* continuation byte 0x80..0xBF (0xC3 0xA9 is U+00E9), anything else fails.
RECURSIVE Utf8(_, _)
Utf8(bs, i) ==
    IF i > Len(bs) THEN << >>
    ELSE IF bs[i] < 128
         THEN LET rest == Utf8(bs, i + 1)
              IN IF rest = DecodeFailed THEN DecodeFailed ELSE << Chr(bs[i]) >> \o rest
         ELSE IF bs[i] \in 194..223 /\ i < Len(bs) /\ bs[i + 1] \in 128..191
              THEN LET rest == Utf8(bs, i + 2)
                   IN IF rest = DecodeFailed THEN DecodeFailed ELSE << "e-acute" >> \o rest
              ELSE DecodeFailed

Decode(bs) == Utf8(bs, 1)

-----------------------------------------------------------------------------
(* XML on the wire and xml.etree.ElementTree.                              *)

NoAttrib == << >>
NoElement == [ none |-> TRUE ]      \* the None that Element.find returns

Element(tag, attrib, children) == [ tag |-> tag, attrib |-> attrib, children |-> children ]

StartTok(tag, attrib) == [ kind |-> "start", tag |-> tag, attrib |-> attrib ]
EmptyTok(tag, attrib) == [ kind |-> "empty", tag |-> tag, attrib |-> attrib ]
EndTok(tag) == [ kind |-> "end", tag |-> tag, attrib |-> NoAttrib ]
TextTok == [ kind |-> "text", tag |-> "#text", attrib |-> NoAttrib ]
DeclTok(encoding) == [ kind |-> "decl", tag |-> "?xml", attrib |-> [ encoding |-> encoding ] ]

SupportedEncodings == { "UTF-8" }

\* The report as nmap writes it: <tag .../> for a childless element.
RECURSIVE Serialize(_)
RECURSIVE SerializeAll(_)
Serialize(e) ==
    IF e.children = << >>
    THEN << EmptyTok(e.tag, e.attrib) >>
    ELSE << StartTok(e.tag, e.attrib) >> \o SerializeAll(e.children) \o << EndTok(e.tag) >>
SerializeAll(es) ==
    IF es = << >> THEN << >> ELSE Serialize(Head(es)) \o SerializeAll(Tail(es))

Raised(e) == [ exc |-> e, value |-> NoElement ]
Returned(v) == [ exc |-> "none", value |-> v ]

AddChild(stack, child) ==
    [ stack EXCEPT ![Len(stack)].children = Append(@, child) ]

\* XMLParser.feed/close driving a TreeBuilder: stack holds the open elements,
\* done the closed document element.
RECURSIVE Feed(_, _, _, _)
Feed(toks, i, stack, done) ==
    IF i > Len(toks)
    THEN IF done # NoElement /\ stack = << >> THEN Returned(done) ELSE Raised("ParseError")
    ELSE LET t == toks[i]
             el == Element(t.tag, t.attrib, << >>)
         IN CASE t.kind = "decl" -> Raised("ParseError")
              [] t.kind = "text" ->
                    IF stack = << >> THEN Raised("ParseError")
                    ELSE Feed(toks, i + 1, stack, done)
              [] t.kind = "start" ->
                    IF done # NoElement THEN Raised("ParseError")
                    ELSE Feed(toks, i + 1, Append(stack, el), done)
              [] t.kind = "empty" ->
                    IF done # NoElement THEN Raised("ParseError")
                    ELSE IF stack = << >> THEN Feed(toks, i + 1, stack, el)
                    ELSE Feed(toks, i + 1, AddChild(stack, el), done)
              [] t.kind = "end" ->
                    IF stack = << >> \/ stack[Len(stack)].tag # t.tag
                    THEN Raised("ParseError")
                    ELSE LET top == stack[Len(stack)]
                             below == SubSeq(stack, 1, Len(stack) - 1)
                         IN IF below = << >> THEN Feed(toks, i + 1, below, top)
                            ELSE Feed(toks, i + 1, AddChild(below, top), done)

\* line 41: ET.fromstring(stdout).  A leading XML declaration naming an
\* encoding the parser has no codec for raises LookupError, not ParseError.
FromString(toks) ==
    IF toks # << >> /\ toks[1].kind = "decl"
    THEN IF toks[1].attrib.encoding \in SupportedEncodings
         THEN Feed(toks, 2, << >>, NoElement)
         ELSE Raised("LookupError")
    ELSE Feed(toks, 1, << >>, NoElement)

\* Well-formedness by the grammar
\*   document ::= decl? element      element ::= empty | start content* end
\* MatchElement gives the index after the element that starts at i, 0 if none.
RECURSIVE MatchElement(_, _)
RECURSIVE MatchContent(_, _, _)
MatchElement(toks, i) ==
    IF i > Len(toks) THEN 0
    ELSE IF toks[i].kind = "empty" THEN i + 1
    ELSE IF toks[i].kind = "start" THEN MatchContent(toks, i + 1, toks[i].tag)
    ELSE 0
MatchContent(toks, i, tag) ==
    IF i > Len(toks) THEN 0
    ELSE IF toks[i].kind = "end" THEN (IF toks[i].tag = tag THEN i + 1 ELSE 0)
    ELSE IF toks[i].kind = "text" THEN MatchContent(toks, i + 1, tag)
    ELSE LET j == MatchElement(toks, i)
         IN IF j = 0 THEN 0 ELSE MatchContent(toks, j, tag)

WellFormed(toks) ==
    LET body == IF toks # << >> /\ toks[1].kind = "decl" THEN Tail(toks) ELSE toks
    IN body # << >> /\ MatchElement(body, 1) = Len(body) + 1

\* Element.get(key): the attribute, or None
Get(e, key) == IF key \in DOMAIN e.attrib THEN e.attrib[key] ELSE None

\* Element.findall(tag): the direct children with that tag, in document order
MutFindAll(e, tag) ==
    LET all == SelectSeq(e.children, LAMBDA c : c.tag = tag)
    IN [ k \in 1..Len(all) |-> all[Len(all) + 1 - k] ]
FindAll(e, tag) == SelectSeq(e.children, LAMBDA c : c.tag = tag)

\* Element.find(tag): the first such child, or None
Find(e, tag) ==
    LET all == SelectSeq(e.children, LAMBDA c : c.tag = tag)
    IN IF all = << >> THEN NoElement ELSE all[1]

\* bool(element): an Element is a container, false when it has no children
\* (and None is false)
Truthy(e) == e # NoElement /\ Len(e.children) > 0

-----------------------------------------------------------------------------
(* _parse_nmap_xml, lines 54-111.                                          *)

\* parent.find(tag).get(attr), lines 70 and 97: calling .get on the None that
\* find returns for a missing sub-node raises AttributeError.
MutRequiredGet(parent, tag, attr) ==
    LET el == Find(parent, tag)
    IN IF el = NoElement THEN Returned(None) ELSE Returned(Get(el, attr))
RequiredGet(parent, tag, attr) ==
    LET el == Find(parent, tag)
    IN IF el = NoElement THEN Raised("AttributeError") ELSE Returned(Get(el, attr))

\* lines 99-106: the service fields, added when service_el is true
ServiceFields(service_el) ==
    IF Truthy(service_el)
    THEN [ service_name |-> Get(service_el, "name"),
           product |-> Get(service_el, "product"),
           version |-> Get(service_el, "version") ]
    ELSE << >>

\* lines 94-107: one port_data dictionary
PortData(port_element) ==
    LET state == RequiredGet(port_element, "state", "state")
    IN IF state.exc # "none" THEN state
       ELSE Returned([ protocol |-> Get(port_element, "protocol"),
                       portid |-> Get(port_element, "portid"),
                       state |-> state.value ]
                     @@ ServiceFields(Find(port_element, "service")))

\* line 93: the loop over the port elements, left at the first exception
RECURSIVE PortLoop(_, _, _)
PortLoop(port_elements, i, ports) ==
    IF i > Len(port_elements) THEN Returned(ports)
    ELSE LET p == PortData(port_elements[i])
         IN IF p.exc # "none" THEN p
            ELSE PortLoop(port_elements, i + 1, Append(ports, p.value))

\* lines 77-79: host_data['addresses'][addrtype] = addr, a later one overwriting
RECURSIVE AddressLoop(_, _, _)
AddressLoop(addr_elements, i, addresses) ==
    IF i > Len(addr_elements) THEN addresses
    ELSE LET key == Get(addr_elements[i], "addrtype")
             val == Get(addr_elements[i], "addr")
         IN AddressLoop(addr_elements, i + 1,
                        [ k \in DOMAIN addresses \cup { key } |->
                            IF k = key THEN val ELSE addresses[k] ])

\* lines 82-88
Hostnames(host_element) ==
    LET hostnames_element == Find(host_element, "hostnames")
    IN IF hostnames_element # NoElement
       THEN LET hs == FindAll(hostnames_element, "hostname")
            IN [ k \in 1..Len(hs) |->
                   [ name |-> Get(hs[k], "name"), type |-> Get(hs[k], "type") ] ]
       ELSE << >>

\* lines 69-107: one host_data dictionary
HostData(host_element) ==
    LET status == RequiredGet(host_element, "status", "state")
        ports_element == Find(host_element, "ports")
        ports == IF ports_element # NoElement
                 THEN PortLoop(FindAll(ports_element, "port"), 1, << >>)
                 ELSE Returned(<< >>)
    IN IF status.exc # "none" THEN status
       ELSE IF ports.exc # "none" THEN ports
       ELSE Returned([ status |-> status.value,
                       addresses |-> AddressLoop(FindAll(host_element, "address"), 1, << >>),
                       hostnames |-> Hostnames(host_element),
                       ports |-> ports.value ])

\* line 68: the loop over the host elements, left at the first exception
RECURSIVE HostLoop(_, _, _)
HostLoop(host_elements, i, hosts) ==
    IF i > Len(host_elements) THEN Returned(hosts)
    ELSE LET h == HostData(host_elements[i])
         IN IF h.exc # "none" THEN h
            ELSE HostLoop(host_elements, i + 1, Append(hosts, h.value))

\* lines 61-111
ParseNmapXml(r) ==
    LET hosts == HostLoop(FindAll(r, "host"), 1, << >>)
    IN IF hosts.exc # "none" THEN hosts
       ELSE Returned([ scan_args |-> Get(r, "args"),
                       start_time |-> Get(r, "startstr"),
                       hosts |-> hosts.value ])

-----------------------------------------------------------------------------
(* Exceptions and the except clauses of run_scan, lines 43-51.             *)

NoException == [ type |-> "none", inner |-> FALSE ]

\* The classes an exception is an instance of.
Mro(type) ==
    CASE type = "FileNotFoundError" -> { "FileNotFoundError", "OSError", "Exception" }
      [] type = "PermissionError" -> { "PermissionError", "OSError", "Exception" }
      [] type = "ValueError" -> { "ValueError", "Exception" }
      [] type = "UnicodeEncodeError" -> { "UnicodeEncodeError", "ValueError", "Exception" }
      [] type = "UnicodeDecodeError" -> { "UnicodeDecodeError", "ValueError", "Exception" }
      [] type = "ParseError" -> { "ParseError", "SyntaxError", "Exception" }
      [] type = "LookupError" -> { "LookupError", "Exception" }
      [] type = "AttributeError" -> { "AttributeError", "Exception" }
      [] OTHER -> { }

\* str(e)
ExcText(type) ==
    CASE type = "ValueError" -> "embedded null byte"
      [] type = "UnicodeEncodeError" -> "'utf-8' codec can't encode character: surrogates not allowed"
      [] type = "UnicodeDecodeError" -> "'utf-8' codec can't decode byte: invalid start byte"
      [] type = "PermissionError" -> "[Errno 13] Permission denied: 'nmap'"
      [] type = "LookupError" -> "unknown encoding"
      [] type = "AttributeError" -> "'NoneType' object has no attribute 'get'"
      [] OTHER -> type

MsgExecFailed(text) == << "Nmap execution failed: " >> \o text
MsgNoOutput == << "Nmap produced no output. Check command and installation." >>
MsgParseFailed == << "Failed to parse Nmap XML output. Ensure Nmap outputs XML." >>
MsgNotFound == << "Nmap command not found. Ensure Nmap is installed and in PATH." >>
MsgUnexpected(text) == << "An unexpected error occurred: " >> \o << text >>

Error(msg) == [ error |-> msg ]

\* The except clause that catches e: the line of the clause, 0 when none does.
\* The clause of line 43 guards only the inner try block.
MutExceptClauseOrder(e) ==
    IF e.inner /\ "ParseError" \in Mro(e.type) THEN 43
    ELSE IF "Exception" \in Mro(e.type) THEN 50
    ELSE IF "FileNotFoundError" \in Mro(e.type) THEN 47
    ELSE 0
MutExceptClause(e) ==
    IF e.inner /\ "ParseError" \in Mro(e.type) THEN 43
    ELSE IF "FileNotFoundError" \in Mro(e.type) THEN 47
    ELSE IF "OSError" \in Mro(e.type) THEN 50
    ELSE 0
ExceptClause(e) ==
    IF e.inner /\ "ParseError" \in Mro(e.type) THEN 43
    ELSE IF "FileNotFoundError" \in Mro(e.type) THEN 47
    ELSE IF "Exception" \in Mro(e.type) THEN 50
    ELSE 0

-----------------------------------------------------------------------------
(* The child process.                                                      *)

\* os.fsencode of one argument: a lone surrogate cannot be encoded, and an
\* encoded argument may not hold a NUL.
ArgFault(arg) ==
    IF \E k \in 1..Len(arg) : arg[k] = SURROGATE THEN "UnicodeEncodeError"
    ELSE IF \E k \in 1..Len(arg) : arg[k] = NUL THEN "ValueError"
    ELSE "none"

\* lines 25-29: what subprocess.Popen(args) raises.  The arguments are
\* converted, in order, before the executable is looked up.
RECURSIVE ArgsFault(_, _)
ArgsFault(args, i) ==
    IF i > Len(args) THEN "none"
    ELSE IF ArgFault(args[i]) # "none" THEN ArgFault(args[i])
    ELSE ArgsFault(args, i + 1)

PopenFault(args, launch) ==
    IF ArgsFault(args, 1) # "none" THEN ArgsFault(args, 1)
    ELSE IF launch = "missing" THEN "FileNotFoundError"
    ELSE IF launch = "denied" THEN "PermissionError"
    ELSE "none"

-----------------------------------------------------------------------------
(* run_scan, lines 19-51, one action per statement.                        *)

NoResult == [ pending |-> TRUE ]

Raise(type, inner) ==
    /\ exc' = [ type |-> type, inner |-> inner ]
    /\ pc' = "raised"

Return(value) ==
    /\ result' = value
    /\ pc' = "done"

\* lines 21-26
BuildCommand ==
    /\ pc = "start"
    /\ options' = EnsureXmlOption(options)
    /\ argv' = CommandLine(options', host)
    /\ pc' = "popen"
    /\ UNCHANGED << host, env, popenCalls, started, waited, parsed, stdout, stderr,
                    returncode, root, exc, result >>

\* lines 25-29
Popen ==
    /\ pc = "popen"
    /\ popenCalls' = popenCalls + 1
    /\ LET fault == PopenFault(argv, env.launch)
       IN IF fault # "none"
          THEN Raise(fault, FALSE) /\ UNCHANGED started
          ELSE started' = started + 1 /\ pc' = "communicate" /\ UNCHANGED exc
    /\ UNCHANGED << host, options, env, argv, waited, parsed, stdout, stderr,
                    returncode, root, result >>

\* line 30
Communicate ==
    /\ pc = "communicate"
    /\ stdout' = env.stdout
    /\ stderr' = env.stderr
    /\ returncode' = env.returncode
    /\ waited' = TRUE
    /\ pc' = "returncode"
    /\ UNCHANGED << host, options, env, argv, popenCalls, started, parsed, root,
                    exc, result >>

\* lines 32-33
MutCheckReturncode ==
    /\ pc = "returncode"
    /\ IF returncode # 0
       THEN IF popenCalls < 2
            THEN pc' = "popen" /\ UNCHANGED << exc, result >>
            ELSE LET text == Decode(stderr)
                 IN IF text = DecodeFailed
                    THEN Raise("UnicodeDecodeError", FALSE) /\ UNCHANGED result
                    ELSE Return(Error(MsgExecFailed(text))) /\ UNCHANGED exc
       ELSE pc' = "stdout" /\ UNCHANGED << exc, result >>
    /\ UNCHANGED << host, options, env, argv, popenCalls, started, waited, parsed,
                    stdout, stderr, returncode, root >>
CheckReturncode ==
    /\ pc = "returncode"
    /\ IF returncode # 0
       THEN LET text == Decode(stderr)
            IN IF text = DecodeFailed
               THEN Raise("UnicodeDecodeError", FALSE) /\ UNCHANGED result
               ELSE Return(Error(MsgExecFailed(text))) /\ UNCHANGED exc
       ELSE pc' = "stdout" /\ UNCHANGED << exc, result >>
    /\ UNCHANGED << host, options, env, argv, popenCalls, started, waited, parsed,
                    stdout, stderr, returncode, root >>

\* "not stdout" of line 35
MutIsEmpty(bytes) == FALSE
IsEmpty(bytes) == Len(bytes) = 0

\* lines 35-37
CheckStdout ==
    /\ pc = "stdout"
    /\ IF IsEmpty(stdout)
       THEN Return(Error(MsgNoOutput))
       ELSE pc' = "fromstring" /\ UNCHANGED result
    /\ UNCHANGED << host, options, env, argv, popenCalls, started, waited, parsed,
                    stdout, stderr, returncode, root, exc >>

\* line 41
ParseOutput ==
    /\ pc = "fromstring"
    /\ parsed' = TRUE
    /\ LET r == FromString(stdout)
       IN IF r.exc # "none"
          THEN Raise(r.exc, TRUE) /\ UNCHANGED root
          ELSE root' = r.value /\ pc' = "parse" /\ UNCHANGED exc
    /\ UNCHANGED << host, options, env, argv, popenCalls, started, waited, stdout,
                    stderr, returncode, result >>

\* line 42
Normalize ==
    /\ pc = "parse"
    /\ LET r == ParseNmapXml(root)
       IN IF r.exc # "none"
          THEN Raise(r.exc, TRUE) /\ UNCHANGED result
          ELSE Return(r.value) /\ UNCHANGED exc
    /\ UNCHANGED << host, options, env, argv, popenCalls, started, waited, parsed,
                    stdout, stderr, returncode, root >>

\* lines 43-51: the exception reaches an except clause, or leaves run_scan
Unwind ==
    /\ pc = "raised"
    /\ LET clause == ExceptClause(exc)
       IN CASE clause = 43 -> Return(Error(MsgParseFailed))
            [] clause = 47 -> Return(Error(MsgNotFound))
            [] clause = 50 -> Return(Error(MsgUnexpected(ExcText(exc.type))))
            [] OTHER -> pc' = "propagated" /\ UNCHANGED result
    /\ UNCHANGED << host, options, env, argv, popenCalls, started, waited, parsed,
                    stdout, stderr, returncode, root, exc >>

Next ==
    \/ BuildCommand
    \/ Popen
    \/ Communicate
    \/ CheckReturncode
    \/ CheckStdout
    \/ ParseOutput
    \/ Normalize
    \/ Unwind

-----------------------------------------------------------------------------
(* The inputs: argument strings, reports, and what the child process does. *)

H == << "h" >>

OptionPieces == { OX, DASH, SV, << SP >>, << NUL >> }
OptionStrings == { Concat(ps) : ps \in SeqsUpTo(OptionPieces, MaxPieces) }

HostChars == { "h", SP, NUL, SURROGATE }
HostStrings == SeqsUpTo(HostChars, MaxHostLen) \ { << >> }

Attr1(k, v) == [ x \in { k } |-> v ]

\* service sub-elements: with and without child elements, with one or all
\* three of the attributes
CpeElement == Element("cpe", NoAttrib, << >>)
ServiceVariants ==
    { Element("service", a, c) :
        a \in { [ name |-> "ssh" ],
                [ name |-> "ssh", product |-> "OpenSSH", version |-> "8.2p1" ] },
        c \in { << >>, << CpeElement >> } }

PortAttrib == [ protocol |-> "tcp", portid |-> "22" ]
PortVariants ==
    { Element("port", PortAttrib, st \o sv) :
        st \in { << >> } \cup { << Element("state", Attr1("state", v), << >>) >> :
                                  v \in { "open", "closed" } },
        sv \in { << >> } \cup { << x >> : x \in ServiceVariants } }

GoodPort == Element("port", PortAttrib, << Element("state", Attr1("state", "open"), << >>) >>)
BadPort == Element("port", PortAttrib, << >>)

AddressElement == Element("address", [ addr |-> "10.0.0.1", addrtype |-> "ipv4" ], << >>)
HostnamesElement ==
    Element("hostnames", NoAttrib,
            << Element("hostname", [ name |-> "h", type |-> "user" ], << >>) >>)

\* host elements: with and without the status sub-node, with and without a
\* ports container, whose port has or lacks its state sub-node
HostVariants ==
    { Element("host", NoAttrib, st \o << AddressElement >> \o ps) :
        st \in { << >> } \cup { << Element("status", Attr1("state", v), << >>) >> :
                                  v \in { "up", "down" } },
        ps \in { << >> } \cup { << Element("ports", NoAttrib, << p >>) >> :
                                  p \in { GoodPort, BadPort } } }

RootAttrib == [ args |-> "nmap -sV -oX - h", startstr |-> "Sat Jul 27 12:34:56 2024" ]
RunStats == Element("runstats", NoAttrib, << >>)

\* reports that vary the children of the root
HostReports ==
    { Element("nmaprun", RootAttrib, cs) :
        cs \in SeqsUpTo(HostVariants \cup { RunStats }, MaxRootChildren) }

\* reports of one host that vary its ports
PortReports ==
    { Element("nmaprun", RootAttrib,
              << Element("host", NoAttrib,
                         << Element("status", Attr1("state", "up"), << >>),
                            AddressElement, HostnamesElement,
                            Element("ports", NoAttrib, ps) >>) >>) :
        ps \in SeqsUpTo(PortVariants, MaxPorts) }

Reports == HostReports \cup PortReports

SampleReports ==
    { Element("nmaprun", RootAttrib, cs) : cs \in SeqsUpTo(HostVariants, 1) }

\* arbitrary output: every short sequence of these markup tokens
MarkupTokens ==
    { StartTok("nmaprun", NoAttrib), EndTok("nmaprun"), EmptyTok("host", NoAttrib),
      TextTok, DeclTok("bogus") }
RawOutputs == SeqsUpTo(MarkupTokens, MaxDocLen)

ErrBytes == { 81, 195, 169 }
ErrOutputs == SeqsUpTo(ErrBytes, MaxErrLen)

Behaviour(launch, rc, out, err, report) ==
    [ launch |-> launch, returncode |-> rc, stdout |-> out, stderr |-> err,
      report |-> report ]

\* the child writes a report
Reporting(rc, reports, errs) ==
    { Behaviour("ok", rc, Serialize(r), e, r) : r \in reports, e \in errs }
\* the child writes anything else
Writing(rc, outs, errs) ==
    { Behaviour("ok", rc, o, e, NoElement) : o \in outs, e \in errs }
\* the child is never created
NotLaunched == { Behaviour(l, 0, << >>, << >>, NoElement) : l \in { "missing", "denied" } }

AllBehaviours ==
    NotLaunched
    \cup Writing(0, RawOutputs, { << >>, << 81 >> })
    \cup Writing(1, RawOutputs, ErrOutputs)
    \cup Reporting(0, SampleReports, { << >> })
    \cup Reporting(1, SampleReports, ErrOutputs)
    \cup Reporting(-9, SampleReports, { << >>, << 81 >> })

InitCall(hosts, opts, behaviours) ==
    /\ pc = "start"
    /\ host \in hosts
    /\ options \in opts
    /\ env \in behaviours
    /\ argv = << >>
    /\ popenCalls = 0
    /\ started = 0
    /\ waited = FALSE
    /\ parsed = FALSE
    /\ stdout = << >>
    /\ stderr = << >>
    /\ returncode = None
    /\ root = NoElement
    /\ exc = NoException
    /\ result = NoResult

\* one call with ordinary arguments, against everything the child may do
Init == InitCall({ H }, { SV }, AllBehaviours)
Spec == Init /\ [][Next]_vars

\* every argument string, against a few behaviours of the child
ArgvBehaviours ==
    NotLaunched \cup Reporting(0, { Element("nmaprun", RootAttrib, << >>) }, { << >> })
InitArgv == InitCall(HostStrings, OptionStrings, ArgvBehaviours)
SpecArgv == InitArgv /\ [][Next]_vars

\* every report, with ordinary arguments
InitParse == InitCall({ H }, { SV }, Reporting(0, Reports, { << >> }))
SpecParse == InitParse /\ [][Next]_vars

-----------------------------------------------------------------------------
(* What the claims speak of.                                               *)

Done == pc = "done"

\* the two variants of the returned dictionary
IsScanError(r) == "error" \in DOMAIN r /\ "hosts" \notin DOMAIN r
IsScanResult(r) ==
    { "scan_args", "start_time", "hosts" } \subseteq DOMAIN r /\ "error" \notin DOMAIN r

\* the child ran: it was created, and what it wrote and how it ended are env's
Ran == env.launch = "ok" /\ started = 1

HasChar(s, c) == \E k \in 1..Len(s) : s[k] = c
Passable(s) == ~HasChar(s, NUL) /\ ~HasChar(s, SURROGATE)

\* the i-th child of e that carries the tag, counted in document order
TagIndexes(e, tag) == { k \in 1..Len(e.children) : e.children[k].tag = tag }
NthTagged(e, tag, i) ==
    e.children[CHOOSE k \in TagIndexes(e, tag) :
                 Cardinality({ j \in TagIndexes(e, tag) : j < k }) = i - 1]
HasChild(e, tag) == TagIndexes(e, tag) # { }
CountTagged(e, tag) == Cardinality(TagIndexes(e, tag))

\* the port elements the report gives for a host element
PortCount(h) == IF HasChild(h, "ports") THEN CountTagged(NthTagged(h, "ports", 1), "port") ELSE 0
PortElement(h, j) == NthTagged(NthTagged(h, "ports", 1), "port", j)

\* a report is complete when no host lacks its status and no port its state
HostComplete(h) ==
    /\ HasChild(h, "status")
    /\ \A j \in 1..PortCount(h) : HasChild(PortElement(h, j), "state")
Complete(r) == \A i \in 1..CountTagged(r, "host") : HostComplete(NthTagged(r, "host", i))

Reported == env.report # NoElement

-----------------------------------------------------------------------------
(* The claims.                                                             *)

\* C1: whatever the child does, a call never lets an exception leave
\* run_scan, never stops before it has returned, and returns exactly one of
\* the two variants: an error dictionary without hosts, or a result
\* dictionary with scan_args, start_time and hosts and without error.
C1_ExactlyOneVariant ==
    /\ pc # "propagated"
    /\ ~Done => ENABLED Next
    /\ Done => (IsScanError(result) /\ ~IsScanResult(result))
               \/ (IsScanResult(result) /\ ~IsScanError(result))

\* C1 witness: an AttributeError of the parser was turned into an error value.
C1_Witness ==
    Done /\ exc.type = "AttributeError" /\ IsScanError(result) /\ ~IsScanResult(result)

\* C2: whenever the child ends with a non-zero exit status, the call returns
\* the error "Nmap execution failed: " followed by the text of the captured
\* standard error, whatever the standard output holds, and never parses.
C2_NonZeroExitReportsStderr ==
    (Done /\ Ran /\ env.returncode # 0) =>
        /\ IsScanError(result)
        /\ result.error[1] = "Nmap execution failed: "
        /\ ~parsed

\* C3: whenever the child ends with status zero and wrote nothing to standard
\* output, the parser is never invoked and the call returns the error "Nmap
\* produced no output".
C3_EmptyOutput ==
    (Ran /\ env.returncode = 0 /\ env.stdout = << >>) =>
        /\ ~parsed
        /\ Done => result = Error(MsgNoOutput)

\* C3 witness: a call returned after a child that ended with status zero and
\* an empty standard output.
C3_Witness ==
    /\ Done /\ Ran /\ env.returncode = 0 /\ env.stdout = << >> /\ waited
    /\ result = Error(MsgNoOutput) /\ ~parsed

\* C4: whenever the child ends with status zero and wrote a non-empty output
\* that is not a well-formed document, the call returns the error "Failed to
\* parse Nmap XML output" and no exception leaves run_scan.
C4_MalformedIsParseFailure ==
    /\ pc # "propagated"
    /\ (Done /\ Ran /\ env.returncode = 0 /\ env.stdout # << >> /\ ~WellFormed(env.stdout))
          => result = Error(MsgParseFailed)

C6_HostsInOrder ==
    (Done /\ Reported /\ Complete(env.report)) =>
        /\ IsScanResult(result)
        /\ Len(result.hosts) = CountTagged(env.report, "host")
        /\ \A i \in 1..CountTagged(env.report, "host") :
              LET h == NthTagged(env.report, "host", i)
              IN /\ result.hosts[i].status = NthTagged(h, "status", 1).attrib.state
                 /\ Len(result.hosts[i].ports) = PortCount(h)

\* C6 witness: a report of a host that is down, another element, and a host
\* that is up, returned as two hosts in that order.
C6_Witness ==
    /\ Done /\ Reported /\ Complete(env.report)
    /\ Len(env.report.children) = 3
    /\ env.report.children[2].tag = "runstats"
    /\ IsScanResult(result)
    /\ Len(result.hosts) = 2
    /\ result.hosts[1].status = "down"
    /\ result.hosts[2].status = "up"
    /\ Len(result.hosts[1].ports) = 1
    /\ Len(result.hosts[2].ports) = 0

ServiceKeys == { "service_name", "product", "version" }

\* what the claim asks of the port_data made from port element pe
ServiceRead(pe, pd) ==
    IF HasChild(pe, "service")
    THEN LET sv == NthTagged(pe, "service", 1)
         IN /\ "service_name" \in DOMAIN pd
            /\ pd.service_name = sv.attrib.name
            /\ \A k \in { "product", "version" } :
                  IF k \in DOMAIN sv.attrib
                  THEN k \in DOMAIN pd /\ pd[k] = sv.attrib[k]
                  ELSE k \notin DOMAIN pd \/ pd[k] = None
    ELSE DOMAIN pd \cap ServiceKeys = { }

\* C7: a port element without a service sub-element gives a port without
\* service_name, product and version; a port element with one, whatever its
\* attributes and children, gives a port whose service fields are read from it.
C7_ServiceFields ==
    (Done /\ Reported /\ Complete(env.report) /\ IsScanResult(result)) =>
        \A i \in 1..CountTagged(env.report, "host") :
            LET h == NthTagged(env.report, "host", i)
            IN \A j \in 1..PortCount(h) :
                  ServiceRead(PortElement(h, j), result.hosts[i].ports[j])

\* the structured-output flag followed by "-" among the tokens
AsksXmlToStdout(args) == \E k \in 1..(Len(args) - 1) : args[k] = OX /\ args[k + 1] = DASH

\* C8: for every options string and every host that is one token, the vector
\* the child was started with begins with the binary, holds the
\* structured-output flag immediately followed by "-", and ends with the host.
C8_ArgumentVector ==
    (started = 1 /\ Passable(host) /\ ~HasChar(host, SP)) =>
        /\ argv[1] = NMAP
        /\ AsksXmlToStdout(argv)
        /\ argv[Len(argv)] = host

\* C9: a call invokes Popen once and never again, creates at most one child,
\* and when it returns after a child was created it has waited for it.
C9_OneProcess ==
    /\ popenCalls <= 1
    /\ started <= popenCalls
    /\ Done => /\ popenCalls = 1
               /\ started = (IF env.launch = "ok" THEN 1 ELSE 0)
               /\ started = 1 => waited

\* C9 witness: a call that returned a parse failure after one child, waited for.
C9_Witness ==
    Done /\ result = Error(MsgParseFailed) /\ popenCalls = 1 /\ started = 1 /\ waited

\* C10: when any host element of the report lacks its status sub-node, or any
\* port element its state sub-node, the call returns an error, the one that
\* carries the fault of the missing sub-node, and never a result.
C10_MissingRequiredAborts ==
    (Done /\ Reported /\ ~Complete(env.report)) =>
        /\ IsScanError(result)
        /\ ~IsScanResult(result)
        /\ result = Error(MsgUnexpected("'NoneType' object has no attribute 'get'"))

\* C10 witness: the second port of a host lacks its state, the first has it,
\* and the call returned an error.
C10_Witness ==
    /\ Done /\ Reported /\ IsScanError(result)
    /\ CountTagged(env.report, "host") = 1
    /\ LET h == NthTagged(env.report, "host", 1)
       IN /\ HasChild(h, "status")
          /\ PortCount(h) = 2
          /\ HasChild(PortElement(h, 1), "state")
          /\ ~HasChild(PortElement(h, 2), "state")

=============================================================================
